---- MODULE Spec2Model ----
(***************************************************************************)
(* The analyzer-chain scheduler of oemof.solph.analyzer (class Analysis),  *)
(* its iterators and its analyzers, as a state machine.                    *)
(*                                                                         *)
(* An analyzer instance is a position in insts; the waiting line and the   *)
(* two chains hold such positions.  A chain is an OrderedDict keyed by the *)
(* class name of the instance: here a sequence of instances with pairwise  *)
(* different classes, in key insertion order.                              *)
(***************************************************************************)
EXTENDS Integers, Sequences, FiniteSets, TLC

VARIABLES
    results,        \* Analysis.results: NoneV or "data"
    param_results,  \* Analysis.param_results: NoneV or "data"; in IterSpec
                    \* the list of the keys of the dataset
    iterator,       \* Analysis.__iterator: an iterator class
    waiting_line,   \* Analysis.__waiting_line: list of instances
    chain,          \* Analysis.__chain: OrderedDict class name -> instance
    former_chain,   \* Analysis.__former_chain: OrderedDict class name -> instance
    insts,          \* every Analyzer object constructed so far
    pc,             \* position of the running analyze() call, "idle" outside;
                    \* in IterSpec the state of the iterator object
    items,          \* Iterator.items of the pass being driven
    index,          \* Iterator.index of the pass being driven
    apos,           \* position in chain.values() of the next init/analyze call
    raised,         \* exception that ended the last API call, "none" if it returned
    message,        \* the class names the text of the raised exception gives
    lastOp,         \* the last API call: add_analyzer with its argument, analyze,
                    \* clean or other; the calls made since the last clean();
                    \* and what that clean() discarded
    held,           \* the objects the caller constructed itself
    accepted,       \* the objects add_analyzer appended since the last clean
    runInfo,        \* bookkeeping of the running analyze() call: its stages and
                    \* passes, the waiting analyzers and the call made before it
    nCalls          \* calls of the API made so far

vars == <<results, param_results, iterator, waiting_line, chain, former_chain,
          insts, pc, items, index, apos, raised, message, lastOp, held, accepted,
          runInfo, nCalls>>

\* ------------------------------------------------------------------ bounds
\* the number of API calls (add_analyzer, analyze, clean, set_iterator) a
\* behaviour makes
MaxCalls == 5

\* the number of keys of a param_results dataset an iterator is built over
MaxKeys == 3

\* ------------------------------------------------------------- vocabulary
NoneV == "None"

Range(s) == {s[i] : i \in 1..Len(s)}

\* The shipped analyzer classes, and two client subclasses of Analyzer that
\* declare what no shipped class does: a cross-barrier dependency on a class
\* without dependencies (WaitingAnalyzer), and a same-stage dependency on a
\* class that has a cross-barrier dependency (DependentAnalyzer).
ShippedClasses ==
    {"SequenceFlowSumAnalyzer", "SizeAnalyzer", "InvestAnalyzer",
     "VariableCostAnalyzer", "FlowTypeAnalyzer", "NodeBalanceAnalyzer",
     "BusBalanceAnalyzer", "LCOEAnalyzer"}

ClientClasses == {"WaitingAnalyzer", "DependentAnalyzer"}

Classes == ShippedClasses \cup ClientClasses

IteratorClasses == {"FlowNodeIterator", "TupleIterator", "NodeIterator"}

\* Analyzer.requires, per class
requires(c) ==
    CASE c \in {"SequenceFlowSumAnalyzer", "SizeAnalyzer", "FlowTypeAnalyzer"}
            -> <<"results">>
      [] c \in {"InvestAnalyzer", "VariableCostAnalyzer", "NodeBalanceAnalyzer",
                "BusBalanceAnalyzer"}
            -> <<"results", "param_results">>
      [] OTHER -> <<>>

\* Analyzer.required_iterator, per class
required_iterator(c) ==
    IF c \in {"NodeBalanceAnalyzer", "BusBalanceAnalyzer"}
    THEN "FlowNodeIterator" ELSE NoneV

\* Analyzer.depends_on, per class
depends_on(c) ==
    CASE c = "InvestAnalyzer" -> <<"SizeAnalyzer">>
      [] c = "VariableCostAnalyzer" -> <<"SequenceFlowSumAnalyzer">>
      [] c \in {"NodeBalanceAnalyzer", "BusBalanceAnalyzer"}
            -> <<"SequenceFlowSumAnalyzer", "FlowTypeAnalyzer">>
      [] c = "LCOEAnalyzer"
            -> <<"SequenceFlowSumAnalyzer", "VariableCostAnalyzer", "InvestAnalyzer">>
      [] c = "DependentAnalyzer" -> <<"WaitingAnalyzer">>
      [] OTHER -> <<>>

\* Analyzer.depends_on_former, per class
depends_on_former(c) ==
    CASE c = "LCOEAnalyzer" -> <<"NodeBalanceAnalyzer">>
      [] c = "WaitingAnalyzer" -> <<"SizeAnalyzer">>
      [] OTHER -> <<>>

\* whether the class can be constructed without arguments, as dependency() does
NoArgConstructor(c) == c # "LCOEAnalyzer"

\* issubclass(it, req) for the iterator classes: none derives from another
IsSubclass(it, req) == it = req \/ req = "Iterator"

\* ----------------------------------------------------------------- dataset
\* The two datasets a scheduler is constructed with: a bus b fed by g and
\* feeding the demand d.  Keys are (from, to) with to = NoneV for a node.
ParamKeys == << <<"d", NoneV>>, <<"g", "b">>, <<"b", NoneV>>, <<"b", "d">> >>

ResultKeys == << <<"g", "b">>, <<"b", NoneV>>, <<"b", "d">> >>

Buses == {"b"}

\* results[key]["sequences"]["flow"], where present
ResultsFlow == (<<"g", "b">> :> <<1, 2>>) @@ (<<"b", "d">> :> <<2>>)

\* results[key]["scalars"]["invest"], where present
ResultsInvest == (<<"g", "b">> :> 4) @@ (<<"b", NoneV>> :> 2)

\* param_results[key]["scalars"]["variable_costs"], where present
ParamVariableCosts == (<<"g", "b">> :> 2) @@ (<<"b", "d">> :> 0)

\* param_results[key]["scalars"]["investment_ep_costs"], where present
ParamEpCosts == (<<"g", "b">> :> 3) @@ (<<"b", NoneV>> :> 1)

\* the load_sinks a caller may hand to LCOEAnalyzer
LoadSinkChoices == {<<"d">>}

Datasets == {NoneV, "data"}

\* ---------------------------------------------------------------- objects
\* Analyzer.__init__ (and LCOEAnalyzer.__init__): a fresh, unconnected object.
\* inits and calls count the init_analyzer calls and, per key, the analyze
\* calls made on the object.  The total of an LCOEAnalyzer is kept as the list
\* of the quotients <<numerator, total_load>> added to its 0.0.  got is what
\* get_analyzer gave the last init_analyzer or analyze call of the object, per
\* class it looked up.
NewAnalyzer(c, sinks) ==
    [cls |-> c, analysis |-> FALSE, result |-> <<>>,
     total |-> IF c = "LCOEAnalyzer" THEN <<>> ELSE 0,
     load_sinks |-> sinks, total_load |-> 0, inits |-> 0, calls |-> <<>>,
     got |-> <<>>]

\* OrderedDict.__setitem__ with the class name of object a as key: an existing
\* key keeps its place and takes the new value, a new key goes last.
DictSet(d, a, objs) ==
    IF \E i \in 1..Len(d) : objs[d[i]].cls = objs[a].cls
    THEN [i \in 1..Len(d) |-> IF objs[d[i]].cls = objs[a].cls THEN a ELSE d[i]]
    ELSE Append(d, a)

\* OrderedDict.update(other): __setitem__ for each item of other, in order
RECURSIVE DictUpdate(_, _, _)
DictUpdate(d, other, objs) ==
    IF other = <<>> THEN d
    ELSE DictUpdate(DictSet(d, Head(other), objs), Tail(other), objs)

\* list(d): the keys of an OrderedDict
Keys(d, objs) == {objs[d[i]].cls : i \in 1..Len(d)}

\* d[name]: the object stored under the key, 0 for KeyError
Lookup(d, name, objs) ==
    IF name \in Keys(d, objs)
    THEN d[CHOOSE i \in 1..Len(d) : objs[d[i]].cls = name]
    ELSE 0

\* dict item assignment f[k] = v
Put(f, k, v) == [x \in DOMAIN f \cup {k} |-> IF x = k THEN v ELSE f[x]]

\* ----------------------------------------------------------- registration
\* getattr(self, req) of check_requirements
Dataset(req) == IF req = "results" THEN results ELSE param_results

\* Analysis.check_requirements: TRUE when it returns, FALSE when it raises
check_requirements(c) ==
    \A i \in 1..Len(requires(c)) : Dataset(requires(c)[i]) # NoneV

\* a check_iterator that accepts every iterator
check_iterator_accepting(c) == TRUE

\* Analysis.check_iterator: TRUE when it returns, FALSE when it raises
check_iterator(c) ==
    required_iterator(c) = NoneV \/ IsSubclass(iterator, required_iterator(c))

\* Analysis.add_analyzer on the scheduler state st = [wl, objs, err, msg], for
\* the constructed object a (msg: the class a RequirementError names); add_dependencies is its loop over
\* depends_on + depends_on_former from position i on.  An exception ends the
\* call where it is raised and keeps what was appended before.  (made, the
\* state with the object dependency() constructed, and st2, the state after
\* its registration, are bound so that each is computed once.)
RECURSIVE add_analyzer(_, _)
RECURSIVE add_dependencies(_, _, _)
add_analyzer(st, a) ==
    LET c == st.objs[a].cls IN
    IF a \in Range(st.wl) THEN st
    ELSE IF ~check_requirements(c) \/ ~check_iterator(c)
    THEN [st EXCEPT !.err = "RequirementError", !.msg = <<c>>]
    ELSE LET st2 == add_dependencies(st, depends_on(c) \o depends_on_former(c), 1)
         IN  IF st2.err # "none" THEN st2
             ELSE [st2 EXCEPT !.wl = Append(@, a)]

add_dependencies(st, deps, i) ==
    IF i > Len(deps) THEN st
    ELSE IF ~NoArgConstructor(deps[i]) THEN [st EXCEPT !.err = "TypeError"]
    ELSE CHOOSE r \in
           {IF st2.err # "none" THEN st2 ELSE add_dependencies(st2, deps, i + 1) :
              st2 \in {add_analyzer(made, Len(made.objs)) :
                 made \in {[st EXCEPT !.objs = Append(@, NewAnalyzer(deps[i], <<>>))]}}}
           : TRUE

\* the calls since the last clean(): the analyzers given to add_analyzer (class
\* and load sinks), whether analyze() was called after them, the iterator of
\* that call, and whether the calls were plain: calls that returned, with
\* every add_analyzer before the first analyze().  (An analyze() that finds
\* nothing registered, or nothing registered since the analyze() before it,
\* has an empty waiting line and an empty chain and changes nothing.)
NoEpoch == [adds |-> <<>>, runs |-> 0, plain |-> TRUE, iterator |-> NoneV]

Spoiled == [adds |-> <<>>, runs |-> 2, plain |-> FALSE, iterator |-> NoneV]

\* what a clean() discarded, as long as nothing is known of it
NoAnalysis == [adds |-> <<>>, plain |-> FALSE, committed |-> <<>>, iterator |-> NoneV]

OtherOp == [op |-> "other", arg |-> 0, epoch |-> NoEpoch, before |-> NoAnalysis]

\* what the former chain holds: per class name, the result and the total of
\* the object stored under it
Committed ==
    [c \in Keys(former_chain, insts) |->
        [result |-> insts[Lookup(former_chain, c, insts)].result,
         total |-> insts[Lookup(former_chain, c, insts)].total]]

\* the record of an API call that starts now; what is given to add_analyzer
\* (nothing when it is an object of the waiting line, for which add_analyzer
\* returns at once).
\* A clean() after plain calls that ended with an analyze() that returned
\* notes the analyzers that were added, the iterator, and what the former
\* chain held.
Logged(op, arg, what) ==
    LET e == lastOp.epoch
        ok == e.plain /\ raised = "none"
    IN  [op |-> op, arg |-> arg,
         epoch |-> CASE op = "clean" -> NoEpoch
                     [] op = "add_analyzer" /\ ok /\ what = <<>> -> e
                     [] op = "add_analyzer" /\ ok /\ what # <<>> /\ e.runs = 0
                          -> [e EXCEPT !.adds = Append(@, what)]
                     [] op = "analyze" /\ ok /\ e.runs = 0 /\ e.adds # <<>>
                          -> [e EXCEPT !.runs = 1, !.iterator = iterator]
                     [] op = "analyze" /\ ok /\ (e = NoEpoch \/ e.runs = 1) -> e
                     [] op = "other" /\ ok -> e
                     [] OTHER -> Spoiled,
         before |-> IF op # "clean" THEN lastOp.before
                    ELSE IF ok /\ e.runs = 1
                    THEN [adds |-> e.adds, plain |-> TRUE, committed |-> Committed,
                          iterator |-> e.iterator]
                    ELSE NoAnalysis]

IdleRun == [stages |-> 0, waitingAtStart |-> 0, passes |-> 0, after |-> "none"]

\* caller: a = C(...); analysis.add_analyzer(a)
AddNew(c, sinks) ==
    /\ pc = "idle"
    /\ nCalls < MaxCalls
    /\ LET made == [wl |-> waiting_line,
                    objs |-> Append(insts, NewAnalyzer(c, sinks)),
                    err |-> "none", msg |-> <<>>]
           st == add_analyzer(made, Len(made.objs))
       IN  /\ waiting_line' = st.wl
           /\ insts' = st.objs
           /\ raised' = st.err
           /\ lastOp' = Logged("add_analyzer", Len(made.objs), <<c, sinks>>)
           /\ held' = held \cup {Len(made.objs)}
           /\ accepted' = accepted \cup Range(st.wl)
           /\ message' = st.msg
    /\ nCalls' = nCalls + 1
    /\ UNCHANGED <<results, param_results, iterator, chain, former_chain, pc,
                   items, index, apos, runInfo>>

\* caller: analysis.add_analyzer(a) for an object a constructed earlier
AddAgain(a) ==
    /\ pc = "idle"
    /\ nCalls < MaxCalls
    /\ a \in held
    /\ LET st == add_analyzer([wl |-> waiting_line, objs |-> insts,
                                  err |-> "none", msg |-> <<>>], a)
       IN  /\ waiting_line' = st.wl
           /\ insts' = st.objs
           /\ raised' = st.err
           /\ lastOp' = Logged("add_analyzer", a,
                               IF a \in Range(waiting_line) THEN <<>>
                               ELSE <<insts[a].cls, insts[a].load_sinks>>)
           /\ accepted' = accepted \cup Range(st.wl)
           /\ message' = st.msg
    /\ nCalls' = nCalls + 1
    /\ UNCHANGED <<held, results, param_results, iterator, chain, former_chain, pc,
                   items, index, apos, runInfo>>

\* a clean that keeps the former chain
Clean_keeping_former ==
    /\ pc = "idle"
    /\ nCalls < MaxCalls
    /\ nCalls' = nCalls + 1
    /\ waiting_line' = <<>>
    /\ chain' = <<>>
    /\ raised' = "none"
    /\ message' = <<>>
    /\ lastOp' = Logged("clean", 0, <<>>)
    /\ accepted' = {}
    /\ UNCHANGED <<held, results, param_results, iterator, insts, pc, items, index,
                   apos, runInfo, former_chain>>

\* Analysis.clean
Clean ==
    /\ pc = "idle"
    /\ nCalls < MaxCalls
    /\ nCalls' = nCalls + 1
    /\ waiting_line' = <<>>
    /\ chain' = <<>>
    /\ former_chain' = <<>>
    /\ raised' = "none"
    /\ message' = <<>>
    /\ lastOp' = Logged("clean", 0, <<>>)
    /\ accepted' = {}
    /\ UNCHANGED <<held, results, param_results, iterator, insts, pc, items, index,
                   apos, runInfo>>

\* Analysis.set_iterator
SetIterator(it) ==
    /\ pc = "idle"
    /\ nCalls < MaxCalls
    /\ nCalls' = nCalls + 1
    /\ it # iterator
    /\ iterator' = it
    /\ raised' = "none"
    /\ message' = <<>>
    /\ lastOp' = Logged("other", 0, <<>>)
    /\ UNCHANGED <<held, accepted, results, param_results, waiting_line, chain, former_chain,
                   insts, pc, items, index, apos, runInfo>>

\* --------------------------------------------------------------- iterators
\* [x for x in s if P(x)], order kept
RECURSIVE Filter(_, _)
Filter(s, keep) ==
    IF s = <<>> THEN <<>>
    ELSE IF Head(s) \in keep THEN <<Head(s)>> \o Filter(Tail(s), keep)
    ELSE Filter(Tail(s), keep)

FlowKeys == {k \in Range(ParamKeys) : k[2] # NoneV}

NodeKeys == {k \in Range(ParamKeys) : k[2] = NoneV}

\* an iterator that yields the keys in the order of the dataset, whatever its class
Items_native_order(it, keys) == keys

\* FlowNodeIterator.__init__, TupleIterator.__init__, NodeIterator.__init__:
\* self.items of an iterator of class it over a dataset with the keys keys
Items(it, keys) ==
    CASE it = "FlowNodeIterator" ->
            Filter(keys, {k \in Range(keys) : k[2] # NoneV})
               \o Filter(keys, {k \in Range(keys) : k[2] = NoneV})
      [] it = "TupleIterator" -> keys
      [] it = "NodeIterator" -> Filter(keys, {k \in Range(keys) : k[2] = NoneV})

\* iterators that all yield the node keys before the flow keys
IteratorItems_nodes_first(it) == Filter(ParamKeys, NodeKeys) \o Filter(ParamKeys, FlowKeys)

\* FlowNodeIterator.__init__, TupleIterator.__init__, NodeIterator.__init__:
\* the items of an iterator of class it over param_results
IteratorItems(it) == Items(it, ParamKeys)

\* --------------------------------------------------------------- analyzers
RECURSIVE SeqSum(_)
SeqSum(s) == IF s = <<>> THEN 0 ELSE Head(s) + SeqSum(Tail(s))

\* Analysis.get_analyzer: the current chain first, then the former chain;
\* 0 stands for its KeyError
get_analyzer(c) ==
    IF Lookup(chain, c, insts) # 0 THEN Lookup(chain, c, insts)
    ELSE Lookup(former_chain, c, insts)

\* self._get_dep_result(C) for each class C of cs, noted in the object (cs is
\* empty for a call that looks nothing up)
Got(o, cs) == [o EXCEPT !.got = [c \in cs |-> get_analyzer(c)]]

\* views.get_flow_type(node, results)
get_flow_type(node) ==
    [single |-> Filter(ResultKeys, {k \in Range(ResultKeys) : k[1] = node /\ k[2] = NoneV}),
     input  |-> Filter(ResultKeys, {k \in Range(ResultKeys) : k[2] = node}),
     output |-> Filter(ResultKeys, {k \in Range(ResultKeys) :
                                       k[1] = node /\ k[2] # NoneV /\ k[2] # node})]

\* a store that adds to the total and writes no entry
Stored_without_entry(o, key, value) == [o EXCEPT !.total = @ + value]

\* self.result[args] = result; self.total += result
Stored(o, key, value) ==
    [o EXCEPT !.result = Put(@, key, value), !.total = @ + value]

\* one bucket of NodeBalanceAnalyzer.analyze: neighbour -> seq_result[flow] for
\* the flows of the bucket that have a result; i is the neighbour's position
\* in the flow (a node has at most one flow per neighbour and direction)
Bucket(flows, i, seq_result) ==
    [n \in {f[i] : f \in Range(flows) \cap DOMAIN seq_result}
        |-> seq_result[CHOOSE f \in Range(flows) \cap DOMAIN seq_result : f[i] = n]]

\* NodeBalanceAnalyzer.analyze after the base class call
NodeBalance(o0, key) ==
    IF key[2] # NoneV THEN [obj |-> Got(o0, {}), err |-> "none"]
    ELSE LET o == Got(o0, {"SequenceFlowSumAnalyzer", "FlowTypeAnalyzer"}) IN
    IF get_analyzer("SequenceFlowSumAnalyzer") = 0
            \/ get_analyzer("FlowTypeAnalyzer") = 0
    THEN [obj |-> o, err |-> "KeyError"]
    ELSE LET seq_result == insts[get_analyzer("SequenceFlowSumAnalyzer")].result
             ft_result == insts[get_analyzer("FlowTypeAnalyzer")].result
         IN  IF key \notin DOMAIN ft_result THEN [obj |-> o, err |-> "none"]
             ELSE [obj |-> [o EXCEPT !.result = Put(@, key[1],
                              [input  |-> Bucket(ft_result[key].input, 1, seq_result),
                               output |-> Bucket(ft_result[key].output, 2, seq_result)])],
                   err |-> "none"]

\* a call whose KeyError is not caught
Skipped_raising(o) == [obj |-> o, err |-> "KeyError"]

\* "except KeyError: return", and the plain return of a call that has nothing
\* to do for the key: the object is left as it is
Skipped(o) == [obj |-> o, err |-> "none"]

\* C.analyze(*key) for the object o of class C: the object afterwards and the
\* exception that left the call, "none" if it returned
analyze(o0, key) ==
    LET c == o0.cls
        o == CASE c = "InvestAnalyzer" -> Got(o0, {"SizeAnalyzer"})
               [] c = "VariableCostAnalyzer" -> Got(o0, {"SequenceFlowSumAnalyzer"})
               [] c = "LCOEAnalyzer" -> Got(o0, {"VariableCostAnalyzer", "InvestAnalyzer"})
               [] OTHER -> Got(o0, {})
        skip == Skipped(o)
        fail(e) == [obj |-> o, err |-> e]
    IN
    IF c = "BusBalanceAnalyzer" /\ key[1] \notin Buses
    THEN [obj |-> Got(o0, {}), err |-> "none"]
    ELSE IF ~o0.analysis THEN [obj |-> Got(o0, {}), err |-> "AttributeError"]
    ELSE CASE c = "SequenceFlowSumAnalyzer" ->
                IF results = NoneV THEN fail("TypeError")
                ELSE IF key \notin Range(ResultKeys) \/ key \notin DOMAIN ResultsFlow THEN skip
                ELSE [obj |-> Stored(o, key, SeqSum(ResultsFlow[key])), err |-> "none"]
           [] c = "SizeAnalyzer" ->
                IF results = NoneV THEN fail("TypeError")
                ELSE IF key \notin Range(ResultKeys) \/ key \notin DOMAIN ResultsInvest THEN skip
                ELSE [obj |-> Stored(o, key, ResultsInvest[key]), err |-> "none"]
           [] c = "InvestAnalyzer" ->
                IF get_analyzer("SizeAnalyzer") = 0 THEN fail("KeyError")
                ELSE IF param_results = NoneV THEN fail("TypeError")
                ELSE LET size == insts[get_analyzer("SizeAnalyzer")].result IN
                     IF key \notin Range(ParamKeys) \/ key \notin DOMAIN size
                        \/ key \notin DOMAIN ParamEpCosts THEN skip
                     ELSE [obj |-> Stored(o, key, ParamEpCosts[key] * size[key]),
                           err |-> "none"]
           [] c = "VariableCostAnalyzer" ->
                IF get_analyzer("SequenceFlowSumAnalyzer") = 0 THEN fail("KeyError")
                ELSE IF param_results = NoneV THEN fail("TypeError")
                ELSE LET flow_sum == insts[get_analyzer("SequenceFlowSumAnalyzer")].result IN
                     IF key \notin Range(ParamKeys) \/ key \notin DOMAIN ParamVariableCosts
                        \/ key \notin DOMAIN flow_sum THEN skip
                     ELSE [obj |-> Stored(o, key, ParamVariableCosts[key] * flow_sum[key]),
                           err |-> "none"]
           [] c = "FlowTypeAnalyzer" ->
                IF key[2] # NoneV THEN skip
                ELSE IF results = NoneV THEN fail("TypeError")
                ELSE [obj |-> [o EXCEPT !.result = Put(@, key, get_flow_type(key[1]))],
                      err |-> "none"]
           [] c \in {"NodeBalanceAnalyzer", "BusBalanceAnalyzer"} -> NodeBalance(o, key)
           [] c = "LCOEAnalyzer" ->
                IF get_analyzer("VariableCostAnalyzer") = 0
                   \/ get_analyzer("InvestAnalyzer") = 0 THEN fail("KeyError")
                ELSE LET vc_result == insts[get_analyzer("VariableCostAnalyzer")].result
                         inv_result == insts[get_analyzer("InvestAnalyzer")].result
                         vc == IF key \in DOMAIN vc_result THEN vc_result[key] ELSE 0
                         inv == IF key \in DOMAIN inv_result THEN inv_result[key] ELSE 0
                     IN  IF key \notin DOMAIN vc_result /\ key \notin DOMAIN inv_result
                         THEN skip
                         ELSE IF o.total_load = 0 THEN fail("ZeroDivisionError")
                         ELSE [obj |-> [o EXCEPT
                                   !.result = Put(@, key,
                                       [investment |-> <<inv, o.total_load>>,
                                        variable_costs |-> <<vc, o.total_load>>]),
                                   !.total = @ \o << <<inv + vc, o.total_load>> >>],
                               err |-> "none"]
           [] OTHER -> skip

RECURSIVE SetSum(_, _)
SetSum(f, dom) ==
    IF dom = {} THEN 0
    ELSE LET x == CHOOSE x \in dom : TRUE IN f[x] + SetSum(f, dom \ {x})

\* the loops of LCOEAnalyzer.init_analyzer over the load sinks from position i
\* on: what they add to total_load, and the KeyError that may end them
RECURSIVE LoadOf(_, _, _, _)
LoadOf(sinks, i, nb_result, seq_result) ==
    IF i > Len(sinks) THEN [load |-> 0, err |-> "none"]
    ELSE IF sinks[i] \notin DOMAIN nb_result THEN [load |-> 0, err |-> "KeyError"]
    ELSE LET froms == DOMAIN nb_result[sinks[i]].input
             flows == {<<f, sinks[i]>> : f \in froms}
         IN  IF ~(flows \subseteq DOMAIN seq_result)
             THEN [load |-> SetSum(seq_result, flows \cap DOMAIN seq_result),
                   err |-> "KeyError"]
             ELSE LET rest == LoadOf(sinks, i + 1, nb_result, seq_result)
                  IN  [load |-> SetSum(seq_result, flows) + rest.load, err |-> rest.err]

\* C.init_analyzer() for the object o of class C
init_analyzer(o0) ==
    IF o0.cls # "LCOEAnalyzer"
    THEN [obj |-> [Got(o0, {}) EXCEPT !.inits = @ + 1], err |-> "none"]
    ELSE LET o == Got(o0, {"SequenceFlowSumAnalyzer", "NodeBalanceAnalyzer"}) IN
    IF get_analyzer("SequenceFlowSumAnalyzer") = 0
            \/ get_analyzer("NodeBalanceAnalyzer") = 0
    THEN [obj |-> [o EXCEPT !.inits = @ + 1], err |-> "KeyError"]
    ELSE LET sum == LoadOf(o.load_sinks, 1,
                           insts[get_analyzer("NodeBalanceAnalyzer")].result,
                           insts[get_analyzer("SequenceFlowSumAnalyzer")].result)
         IN  [obj |-> [o EXCEPT !.inits = @ + 1, !.total_load = @ + sum.load],
              err |-> sum.err]

\* --------------------------------------------------------------- scheduling
\* check_dependencies with the cross-barrier dependencies looked up in both
\* chains, as if line 91 did not reset chain_keys
check_dependencies_keeping_keys(c, ch, fc, objs) ==
    IF \E i \in 1..Len(depends_on(c) \o depends_on_former(c)) :
          (depends_on(c) \o depends_on_former(c))[i] \notin Keys(fc, objs) \cup Keys(ch, objs)
    THEN IF \E i \in 1..Len(depends_on(c)) :
               depends_on(c)[i] \notin Keys(fc, objs) \cup Keys(ch, objs)
         THEN "raise" ELSE "wait"
    ELSE "ready"

\* Analysis.check_dependencies for an object of class c, against the current
\* chain ch and the former chain fc: "raise" for the DependencyError of a
\* same-stage dependency in neither chain, "wait" for False, "ready" for True
check_dependencies(c, ch, fc, objs) ==
    IF \E i \in 1..Len(depends_on(c)) :
          depends_on(c)[i] \notin Keys(fc, objs) \cup Keys(ch, objs)
    THEN "raise"
    ELSE IF \E i \in 1..Len(depends_on_former(c)) :
               depends_on_former(c)[i] \notin Keys(fc, objs)
    THEN "wait"
    ELSE "ready"

\* a promotion that leaves added_analyzer as it was
Promote_without_flag(p, a) ==
    [p EXCEPT !.ch = DictSet(@, a, p.objs), !.objs[a].analysis = TRUE]

\* what the loop of __prepare_next_chain does with one analyzer a that
\* check_dependencies found ready: it enters the chain and is connected
Promote(p, a) ==
    [p EXCEPT !.ch = DictSet(@, a, p.objs), !.objs[a].analysis = TRUE, !.added = TRUE]

\* what the loop does with one analyzer a that is not ready
Defer(p, a) == [p EXCEPT !.wl = Append(@, a)]

\* the loop of Analysis.__prepare_next_chain over current_waiting_line from
\* position i on; p = [wl, ch, objs, added, err] is what it has built so far
\* (q names the result of one round, so that it is computed once)
RECURSIVE Partition(_, _, _, _)
Partition(cur, i, p, fc) ==
    IF i > Len(cur) THEN p
    ELSE LET a == cur[i]
             verdict == check_dependencies(p.objs[a].cls, p.ch, fc, p.objs)
         IN  IF verdict = "raise" THEN [p EXCEPT !.err = "DependencyError"]
             ELSE CHOOSE r \in {Partition(cur, i + 1, q, fc) :
                                   q \in {IF verdict = "ready" THEN Promote(p, a)
                                          ELSE Defer(p, a)}} : TRUE

\* ",".join(x.__class__.__name__ for x in self.__waiting_line), as a list
Names(wl, objs) == [i \in 1..Len(wl) |-> objs[wl[i]].cls]

\* Analysis.__store_results: the former chain afterwards
store_results(fc, ch, objs) == DictUpdate(fc, ch, objs)

Abort(e) ==
    /\ pc' = "idle"
    /\ raised' = e

\* caller: analysis.analyze()
Analyze ==
    /\ pc = "idle"
    /\ nCalls < MaxCalls
    /\ pc' = "init"
    /\ apos' = 1
    /\ raised' = "none"
    /\ message' = <<>>
    /\ nCalls' = nCalls + 1
    /\ lastOp' = Logged("analyze", 0, <<>>)
    /\ UNCHANGED <<held, accepted>>
    /\ runInfo' = [stages |-> 0, waitingAtStart |-> Len(waiting_line), passes |-> 0,
                    after |-> lastOp.op]
    /\ UNCHANGED <<results, param_results, iterator, waiting_line, chain,
                   former_chain, insts, items, index>>

\* __analyze_chain, first loop: one init_analyzer call
InitStep ==
    /\ pc = "init"
    /\ apos <= Len(chain)
    /\ LET r == init_analyzer(insts[chain[apos]]) IN
       /\ insts' = [insts EXCEPT ![chain[apos]] = r.obj]
       /\ IF r.err # "none"
          THEN Abort(r.err) /\ apos' = apos
          ELSE apos' = apos + 1 /\ UNCHANGED <<pc, raised>>
    /\ UNCHANGED <<results, param_results, iterator, waiting_line, chain,
                   former_chain, items, index, message, lastOp, held, accepted, runInfo,
                   nCalls>>

\* __analyze_chain, "for element in self": __iter__ builds the iterator and
\* the first element is fetched; a pass without analyzers or without elements
\* runs through at once
StartPass ==
    /\ pc = "init"
    /\ apos > Len(chain)
    /\ IF param_results = NoneV
       THEN Abort("TypeError") /\ UNCHANGED <<items, index, apos, runInfo>>
       ELSE /\ items' = IteratorItems(iterator)
            /\ raised' = raised
            /\ runInfo' = [runInfo EXCEPT !.passes = @ + 1,
                                          !.stages = IF chain # <<>> THEN @ + 1 ELSE @]
            /\ IF chain = <<>> \/ items' = <<>>
               THEN pc' = "store" /\ index' = Len(items') /\ apos' = apos
               ELSE pc' = "pass" /\ index' = 1 /\ apos' = 1
    /\ UNCHANGED <<results, param_results, iterator, waiting_line, chain,
                   former_chain, insts, message, lastOp, held, accepted, nCalls>>

\* __analyze_chain, second loop: one analyzer.analyze(*element) call, and the
\* fetch of the next element after the last analyzer of the chain
Compute ==
    /\ pc = "pass"
    /\ LET a == chain[apos]
           key == items[index]
           r == analyze(insts[a], key)
           n == IF key \in DOMAIN insts[a].calls THEN insts[a].calls[key] ELSE 0
       IN  /\ insts' = [insts EXCEPT ![a] = [r.obj EXCEPT !.calls = Put(@, key, n + 1)]]
           /\ IF r.err # "none"
              THEN Abort(r.err) /\ UNCHANGED <<index, apos>>
              ELSE /\ raised' = raised
                   /\ IF apos < Len(chain)
                      THEN apos' = apos + 1 /\ UNCHANGED <<pc, index>>
                      ELSE IF index < Len(items)
                      THEN apos' = 1 /\ index' = index + 1 /\ pc' = pc
                      ELSE pc' = "store" /\ UNCHANGED <<index, apos>>
    /\ UNCHANGED <<results, param_results, iterator, waiting_line, chain,
                   former_chain, items, message, lastOp, held, accepted, runInfo,
                   nCalls>>

\* Analysis.__store_results
StoreResults ==
    /\ pc = "store"
    /\ former_chain' = store_results(former_chain, chain, insts)
    /\ chain' = <<>>
    /\ pc' = "prepare"
    /\ UNCHANGED <<results, param_results, iterator, waiting_line, insts, items,
                   index, apos, raised, message, lastOp, held, accepted, runInfo,
                   nCalls>>

\* Analysis.__prepare_next_chain and the test of its result in analyze()
PrepareNextChain ==
    /\ pc = "prepare"
    /\ IF waiting_line = <<>>
       THEN /\ pc' = "idle"
            /\ UNCHANGED <<waiting_line, chain, insts, raised, message, apos>>
       ELSE LET p == Partition(waiting_line, 1,
                               [wl |-> <<>>, ch |-> chain, objs |-> insts,
                                added |-> FALSE, err |-> "none"],
                               former_chain)
            IN  /\ waiting_line' = p.wl
                /\ chain' = p.ch
                /\ insts' = p.objs
                /\ IF p.err # "none"
                   THEN Abort(p.err) /\ UNCHANGED <<message, apos>>
                   ELSE IF ~p.added
                   THEN /\ Abort("FormerDependencyError")
                        /\ message' = Names(p.wl, p.objs)
                        /\ apos' = apos
                   ELSE /\ pc' = "init"
                        /\ apos' = 1
                        /\ UNCHANGED <<raised, message>>
    /\ UNCHANGED <<results, param_results, iterator, former_chain, items, index,
                   lastOp, held, accepted, runInfo, nCalls>>

\* -------------------------------------------------------------- the system
Init ==
    /\ results \in Datasets
    /\ param_results \in Datasets
    /\ iterator \in IteratorClasses
    /\ waiting_line = <<>>
    /\ chain = <<>>
    /\ former_chain = <<>>
    /\ insts = <<>>
    /\ pc = "idle"
    /\ items = <<>>
    /\ index = 0
    /\ apos = 1
    /\ raised = "none"
    /\ message = <<>>
    /\ lastOp = OtherOp
    /\ held = {}
    /\ accepted = {}
    /\ runInfo = IdleRun
    /\ nCalls = 0

\* the classes the caller constructs in Spec: one of each kind of declaration
\* (no dependency; a same-stage dependency; a cross-barrier dependency; a
\* same-stage dependency on a class that waits; a required iterator)
SchedulingClasses ==
    {"SizeAnalyzer", "InvestAnalyzer", "WaitingAnalyzer", "DependentAnalyzer",
     "BusBalanceAnalyzer"}

\* the constructor arguments a caller may give for class c
SinksFor(c) == IF c = "LCOEAnalyzer" THEN LoadSinkChoices ELSE {<<>>}

Next ==
    \/ \E c \in SchedulingClasses : \E sinks \in SinksFor(c) : AddNew(c, sinks)
    \/ \E a \in held : AddAgain(a)
    \/ Clean
    \/ \E it \in IteratorClasses : SetIterator(it)
    \/ Analyze
    \/ InitStep
    \/ StartPass
    \/ Compute
    \/ StoreResults
    \/ PrepareNextChain

Spec == Init /\ [][Next]_vars

\* the classes the caller constructs in DataSpec: the shipped analyzers that
\* derive values from the datasets (LCOEAnalyzer brings SizeAnalyzer,
\* InvestAnalyzer and FlowTypeAnalyzer with it as dependencies)
DataClasses ==
    {"SequenceFlowSumAnalyzer", "VariableCostAnalyzer", "NodeBalanceAnalyzer",
     "LCOEAnalyzer"}

NextData ==
    \/ \E c \in DataClasses : \E sinks \in SinksFor(c) : AddNew(c, sinks)
    \/ \E a \in held : AddAgain(a)
    \/ Clean
    \/ \E it \in IteratorClasses : SetIterator(it)
    \/ Analyze
    \/ InitStep
    \/ StartPass
    \/ Compute
    \/ StoreResults
    \/ PrepareNextChain

DataSpec == Init /\ [][NextData]_vars

\* ------------------------------------------------- the iterators on their own
\* the keys a param_results dataset may have: (from, to) over three nodes,
\* to = NoneV for a node
Nodes == {"g", "b", "d"}

AllKeys == {<<f, t>> : f \in Nodes, t \in Nodes \cup {NoneV}}

\* the key lists of the datasets of at most MaxKeys keys (the keys of a dict
\* are pairwise different)
KeyLists ==
    {ks \in UNION {[1..n -> AllKeys] : n \in 0..MaxKeys} :
        \A i \in 1..Len(ks) : \A j \in 1..Len(ks) : i # j => ks[i] # ks[j]}

\* Analysis(results, param_results, iterator) for a dataset with any keys
InitIter ==
    /\ results = "data"
    /\ param_results \in KeyLists
    /\ iterator \in IteratorClasses
    /\ waiting_line = <<>>
    /\ chain = <<>>
    /\ former_chain = <<>>
    /\ insts = <<>>
    /\ pc = "idle"
    /\ items = <<>>
    /\ index = 0
    /\ apos = 1
    /\ raised = "none"
    /\ message = <<>>
    /\ lastOp = OtherOp
    /\ held = {}
    /\ accepted = {}
    /\ runInfo = IdleRun
    /\ nCalls = 0

\* iter(analysis): Analysis.__iter__ constructs the iterator of the active
\* class over param_results (a dataset; None is the TypeError of StartPass)
MakeIterator ==
    /\ pc = "idle"
    /\ items' = Items(iterator, param_results)
    /\ index' = 0
    /\ pc' = "iterating"
    /\ UNCHANGED <<results, param_results, iterator, waiting_line, chain, former_chain,
                   insts, apos, raised, message, lastOp, held, accepted, runInfo,
                   nCalls>>

\* Iterator.__next__: items[index] is returned and index counted up, or
\* StopIteration is raised behind the last item (index counts from 0 in the
\* code, so items[index] of the code is position index + 1 here)
NextItem ==
    /\ pc = "iterating"
    /\ IF index + 1 \in DOMAIN items
       THEN index' = index + 1 /\ pc' = pc
       ELSE index' = index /\ pc' = "exhausted"
    /\ UNCHANGED <<results, param_results, iterator, waiting_line, chain, former_chain,
                   insts, items, apos, raised, message, lastOp, held, accepted, runInfo,
                   nCalls>>

NextIter ==
    \/ MakeIterator
    \/ NextItem

IterSpec == InitIter /\ [][NextIter]_vars

\* ================================================================== claims
AllRegistered == Range(waiting_line) \cup Range(chain) \cup Range(former_chain)

RegisteredClasses == {insts[a].cls : a \in AllRegistered}

\* the API call op has returned without an exception and no other call followed
Returned(op) == pc = "idle" /\ lastOp.op = op /\ raised = "none"

\* this step is a call of add_analyzer
AddCall == nCalls' = nCalls + 1 /\ lastOp'.op = "add_analyzer"

\* this step is the partition of a non-empty waiting line
PartitionStep == pc = "prepare" /\ pc' # "prepare" /\ waiting_line # <<>>

\* C1: an analyzer is in the current chain only if, for every class B of its
\* depends_on_former, an instance of B is in the former chain, and that
\* instance has been executed (its stage was passed and stored before).
C1_FormerCommittedFirst ==
    \A i \in 1..Len(chain) :
        \A j \in 1..Len(depends_on_former(insts[chain[i]].cls)) :
            LET b == Lookup(former_chain, depends_on_former(insts[chain[i]].cls)[j], insts)
            IN  b # 0 /\ DOMAIN insts[b].calls # {}

\* an analyzer with a cross-barrier dependency is being executed in a pass
C1_Witness ==
    /\ pc = "pass"
    /\ \E i \in 1..Len(chain) :
          /\ depends_on_former(insts[chain[i]].cls) # <<>>
          /\ DOMAIN insts[chain[i]].calls # {}

\* an object of the waiting line has a same-stage dependency in neither the
\* former chain nor the chain ch
UnmetSameStage(a, ch) ==
    \E i \in 1..Len(depends_on(insts[a].cls)) :
        depends_on(insts[a].cls)[i] \notin Keys(former_chain, insts) \cup Keys(ch, insts)

\* C2: in a partition step an analyzer of the waiting line whose same-stage
\* dependency is in neither chain stays in the waiting line, and no
\* DependencyError is raised.
C2_UnmetDependencyWaits ==
    [][PartitionStep =>
         \A i \in 1..Len(waiting_line) :
             UnmetSameStage(waiting_line[i], chain')
                => /\ waiting_line[i] \in Range(waiting_line')
                   /\ raised' # "DependencyError"]_vars

C4_PartitionProgress ==
    [][PartitionStep => (Len(waiting_line') < Len(waiting_line) \/ pc' = "idle")]_vars

\* C4: analyze() executes at most as many stages (passes of a non-empty
\* chain) as analyzers were waiting when it was called.
C4_StagesBoundedByWaiting == runInfo.stages <= runInfo.waitingAtStart

\* C5: when analyze() has returned, the waiting line and the current chain
\* are empty and every object add_analyzer appended is in the former chain
\* and has been analyzed exactly once on every key of the traversal.
C5_AcceptedAreExecutedOnce ==
    Returned("analyze") =>
        /\ waiting_line = <<>>
        /\ chain = <<>>
        /\ \A a \in accepted :
              /\ a \in Range(former_chain)
              /\ \A k \in Range(items) :
                    k \in DOMAIN insts[a].calls /\ insts[a].calls[k] = 1

\* C6: add_analyzer for an object whose class has an instance in the waiting
\* line or in a chain changes neither the waiting line nor the chains.
C6_ReRegistrationIsNoOp ==
    [][(AddCall /\ insts'[lastOp'.arg].cls \in RegisteredClasses)
          => /\ waiting_line' = waiting_line
             /\ chain' = chain
             /\ former_chain' = former_chain]_vars

\* C7: at most one instance of each class is present across the waiting
\* line and the two chains.
C7_OneInstancePerClass ==
    /\ \A c \in Classes : Cardinality({a \in AllRegistered : insts[a].cls = c}) <= 1
    /\ \A i, j \in 1..Len(waiting_line) : i # j => waiting_line[i] # waiting_line[j]

\* the classes a class depends on, directly or through its dependencies
RECURSIVE Closure(_)
Closure(c) ==
    LET direct == Range(depends_on(c)) \cup Range(depends_on_former(c))
    IN  direct \cup UNION {Closure(d) : d \in direct}

\* C8: after add_analyzer(X) has returned, every class X depends on is
\* registered, and every instance of such a class in the waiting line stands
\* before X.
C8_DependenciesRegisteredBefore ==
    Returned("add_analyzer") =>
        LET x == lastOp.arg
            deps == Closure(insts[x].cls)
        IN  /\ deps \subseteq RegisteredClasses
            /\ \A j \in 1..Len(waiting_line) :
                  insts[waiting_line[j]].cls \in deps
                     => \E i \in 1..Len(waiting_line) : waiting_line[i] = x /\ j < i

\* a dataset the class requires is None
MissingDataset(c) ==
    \E i \in 1..Len(requires(c)) :
        IF requires(c)[i] = "results" THEN results = NoneV ELSE param_results = NoneV

\* the class requires an iterator the active one is not
WrongIterator(c) ==
    required_iterator(c) # NoneV /\ ~IsSubclass(iterator, required_iterator(c))

\* C9: add_analyzer for a BusBalanceAnalyzer, with its own requirements met,
\* on a scheduler without a FlowTypeAnalyzer raises DependencyError.
C9_MissingDependencyRaises ==
    [][(/\ AddCall
        /\ insts'[lastOp'.arg].cls = "BusBalanceAnalyzer"
        /\ "FlowTypeAnalyzer" \notin RegisteredClasses
        /\ ~MissingDataset("BusBalanceAnalyzer")
        /\ ~WrongIterator("BusBalanceAnalyzer"))
          => raised' = "DependencyError"]_vars

\* C10 as claimed: add_analyzer(X) raises RequirementError and X is not in
\* the waiting line if a required dataset is None or the iterator is not the
\* required one; otherwise no RequirementError names X.
C10_RequirementsCheckedAlways ==
    [][AddCall =>
         LET x == lastOp'.arg
             c == insts'[x].cls
         IN  IF MissingDataset(c) \/ WrongIterator(c)
             THEN raised' = "RequirementError" /\ x \notin Range(waiting_line')
             ELSE ~(raised' = "RequirementError" /\ message' = <<c>>)]_vars

\* C10 as amended: the same for an X that is not in the waiting line already,
\* and the failing call leaves the waiting line as it was.
C10_RequirementsCheckedAtRegistration ==
    [][(AddCall /\ lastOp'.arg \notin Range(waiting_line)) =>
         LET x == lastOp'.arg
             c == insts'[x].cls
         IN  IF MissingDataset(c) \/ WrongIterator(c)
             THEN /\ raised' = "RequirementError"
                  /\ message' = <<c>>
                  /\ waiting_line' = waiting_line
             ELSE ~(raised' = "RequirementError" /\ message' = <<c>>)]_vars

\* add_analyzer has raised the RequirementError of its iterator check
C10_Witness ==
    /\ pc = "idle"
    /\ lastOp.op = "add_analyzer"
    /\ raised = "RequirementError"
    /\ message = <<insts[lastOp.arg].cls>>
    /\ ~MissingDataset(insts[lastOp.arg].cls)
    /\ lastOp.arg \notin Range(waiting_line)

\* C11: an analyzer of the current chain is not in the former chain: it gets
\* there only by the commit of its stage.
C11_NoActiveInFormer == Range(chain) \cap Range(former_chain) = {}

\* C11 (the commit step): the former chain changes only by clean() or by the
\* commit after a pass, which takes every analyzer of the current chain, each
\* applied to every key of the traversal, and leaves the current chain empty.
C11_CommitIsOneStep ==
    [][former_chain' # former_chain =>
          \/ lastOp'.op = "clean" /\ former_chain' = <<>>
          \/ /\ pc = "store"
             /\ chain' = <<>>
             /\ Range(chain) \subseteq Range(former_chain')
             /\ \A a \in Range(chain) : Range(items) \subseteq DOMAIN insts[a].calls]_vars

\* the place of object b in the current chain, 0 if it is not there
ChainPos(b) == IF b \in Range(chain) THEN CHOOSE i \in 1..Len(chain) : chain[i] = b ELSE 0

\* the value an InvestAnalyzer and a VariableCostAnalyzer have to give for key k
\* where the datasets hold what they need: the product with the final value
\* of the dependency
InvestValue(k) == ParamEpCosts[k] * ResultsInvest[k]

VariableCostValue(k) == ParamVariableCosts[k] * SeqSum(ResultsFlow[k])

\* C12: when the compute of an analyzer D is about to be applied to a key K,
\* the instance get_analyzer gives for every class of D's depends_on has been
\* applied to K already, earlier in this pass or in a committed stage; and the
\* values InvestAnalyzer and VariableCostAnalyzer hold are the products with
\* the final value of their dependency, none missing for a key they were
\* applied to.
C12_DependencyAppliedFirst ==
    /\ pc = "pass" =>
          \A j \in 1..Len(depends_on(insts[chain[apos]].cls)) :
              LET b == get_analyzer(depends_on(insts[chain[apos]].cls)[j])
              IN  /\ b # 0
                  /\ items[index] \in DOMAIN insts[b].calls
                  /\ b \in Range(chain) => ChainPos(b) < apos
    /\ \A a \in 1..Len(insts) :
          /\ insts[a].cls = "InvestAnalyzer" =>
                /\ \A k \in DOMAIN insts[a].result : insts[a].result[k] = InvestValue(k)
                /\ DOMAIN insts[a].calls \cap DOMAIN ParamEpCosts \cap DOMAIN ResultsInvest
                       \subseteq DOMAIN insts[a].result
          /\ insts[a].cls = "VariableCostAnalyzer" =>
                /\ \A k \in DOMAIN insts[a].result : insts[a].result[k] = VariableCostValue(k)
                /\ DOMAIN insts[a].calls \cap DOMAIN ParamVariableCosts \cap DOMAIN ResultsFlow
                       \subseteq DOMAIN insts[a].result

\* C13: during a pass, an analyzer of the current chain has been applied to
\* a key only if every analyzer before it in the chain has been applied to
\* all keys of the traversal.
C13_SequentialFullTraversal ==
    pc = "pass" =>
        \A i, j \in 1..Len(chain) :
            (i < j /\ DOMAIN insts[chain[j]].calls # {})
                => Range(items) \subseteq DOMAIN insts[chain[i]].calls

\* this step is an init_analyzer or analyze call, made on the object chain[apos]
AnalyzerCall == pc \in {"init", "pass"} /\ apos <= Len(chain)

\* C14: what an init_analyzer or analyze call gets for a class it looks up
\* is the instance of the former chain if there is one, else the instance of
\* the current chain; with an instance in neither the call fails.
C14_FormerChainFirst ==
    [][AnalyzerCall =>
         \A c \in DOMAIN insts'[chain[apos]].got :
             /\ insts'[chain[apos]].got[c] =
                    IF Lookup(former_chain, c, insts) # 0
                    THEN Lookup(former_chain, c, insts)
                    ELSE Lookup(chain, c, insts)
             /\ insts'[chain[apos]].got[c] = 0 => raised' = "KeyError"]_vars

\* C14 with the chains in the order of the code: the current chain first
C14_CurrentChainFirst ==
    [][AnalyzerCall =>
         \A c \in DOMAIN insts'[chain[apos]].got :
             /\ insts'[chain[apos]].got[c] =
                    IF Lookup(chain, c, insts) # 0
                    THEN Lookup(chain, c, insts)
                    ELSE Lookup(former_chain, c, insts)
             /\ insts'[chain[apos]].got[c] = 0 => raised' = "KeyError"]_vars

\* what analyzer object o needs for key k is absent: the entry of the dataset,
\* its scalar or sequence, or the value of the dependency
Absent(o, k) ==
    CASE o.cls = "SequenceFlowSumAnalyzer" -> k \notin DOMAIN ResultsFlow
      [] o.cls = "SizeAnalyzer" -> k \notin DOMAIN ResultsInvest
      [] o.cls = "InvestAnalyzer" ->
            \/ k \notin DOMAIN ParamEpCosts
            \/ k \notin DOMAIN insts[get_analyzer("SizeAnalyzer")].result
      [] o.cls = "VariableCostAnalyzer" ->
            \/ k \notin DOMAIN ParamVariableCosts
            \/ k \notin DOMAIN insts[get_analyzer("SequenceFlowSumAnalyzer")].result
      [] OTHER -> FALSE

\* C15: an analyze call of a SequenceFlowSumAnalyzer, SizeAnalyzer,
\* InvestAnalyzer or VariableCostAnalyzer on a key for which what it needs is
\* absent raises nothing and leaves result and total of the object as they
\* are, without an entry for the key.
C15_SparseKeySkipped ==
    [][(pc = "pass" /\ Absent(insts[chain[apos]], items[index])) =>
          /\ raised' = "none"
          /\ pc' # "idle"
          /\ insts'[chain[apos]].result = insts[chain[apos]].result
          /\ insts'[chain[apos]].total = insts[chain[apos]].total
          /\ items[index] \notin DOMAIN insts'[chain[apos]].result]_vars

\* a VariableCostAnalyzer holds values and has skipped a key in the same pass
C15_Witness ==
    /\ pc = "pass"
    /\ \E i \in 1..Len(chain) :
          /\ insts[chain[i]].cls = "VariableCostAnalyzer"
          /\ insts[chain[i]].result # <<>>
          /\ \E k \in DOMAIN insts[chain[i]].calls :
                 k \notin DOMAIN insts[chain[i]].result

\* the mapping a SequenceFlowSumAnalyzer has to hold after it was applied to
\* the keys ks: the sum of the samples for each of them with a "flow"
\* sequence in results
FlowSums(ks) == [k \in ks \cap DOMAIN ResultsFlow |-> SeqSum(ResultsFlow[k])]

\* C16 as claimed: after a successful analyze() a committed
\* SequenceFlowSumAnalyzer holds the sum for every key of results with a "flow"
\* sequence, and no other key.
C16_SumForEveryFlow ==
    Returned("analyze") =>
        \A i \in 1..Len(former_chain) :
            insts[former_chain[i]].cls = "SequenceFlowSumAnalyzer"
                => insts[former_chain[i]].result = FlowSums(DOMAIN ResultsFlow)

\* C16 as amended: a SequenceFlowSumAnalyzer holds the sum for every key it
\* was applied to that has a "flow" sequence in results, and no other key; and
\* when a stage is committed every analyzer of it has been applied to exactly
\* the keys the active iterator yields.
C16_SumForEveryVisitedFlow ==
    /\ \A a \in 1..Len(insts) :
          insts[a].cls = "SequenceFlowSumAnalyzer"
              => insts[a].result = FlowSums(DOMAIN insts[a].calls)
    /\ pc = "store" =>
          /\ items = IteratorItems(iterator)
          /\ \A i \in 1..Len(chain) : Range(items) \subseteq DOMAIN insts[chain[i]].calls

\* analyze() has returned and a committed SequenceFlowSumAnalyzer holds a sum
\* for some keys of the traversal and none for others
C16_Witness ==
    /\ Returned("analyze")
    /\ \E i \in 1..Len(former_chain) :
          /\ insts[former_chain[i]].cls = "SequenceFlowSumAnalyzer"
          /\ insts[former_chain[i]].result # <<>>
          /\ DOMAIN insts[former_chain[i]].calls # DOMAIN insts[former_chain[i]].result

\* C17: the total of every SequenceFlowSumAnalyzer, SizeAnalyzer,
\* InvestAnalyzer and VariableCostAnalyzer object is the sum of the values in
\* its result mapping.
C17_TotalIsSumOfResult ==
    \A a \in 1..Len(insts) :
        insts[a].cls \in {"SequenceFlowSumAnalyzer", "SizeAnalyzer", "InvestAnalyzer",
                          "VariableCostAnalyzer"}
            => insts[a].total = SetSum(insts[a].result, DOMAIN insts[a].result)

\* the flows a traversal of all flow keys gives a SequenceFlowSumAnalyzer
\* result for
SummedFlows == FlowKeys \cap DOMAIN ResultsFlow

\* the two buckets of node n: every neighbour with a summed flow into n, and
\* every neighbour with a summed flow out of n, with the sum of that flow
Balance(n) ==
    [input  |-> [m \in {f[1] : f \in {g \in SummedFlows : g[2] = n}}
                    |-> SeqSum(ResultsFlow[<<m, n>>])],
     output |-> [m \in {f[2] : f \in {g \in SummedFlows : g[1] = n}}
                    |-> SeqSum(ResultsFlow[<<n, m>>])]]

\* C18: under FlowNodeIterator, the analyze call of a NodeBalanceAnalyzer on
\* a node key (n, None) leaves in result[n] the two buckets of n with every
\* summed flow of n, none missed.
C18_NodeBalanceIsComplete ==
    [][(/\ pc = "pass"
        /\ iterator = "FlowNodeIterator"
        /\ insts[chain[apos]].cls = "NodeBalanceAnalyzer"
        /\ items[index][2] = NoneV)
          => /\ raised' = "none"
             /\ items[index][1] \in DOMAIN insts'[chain[apos]].result
             /\ insts'[chain[apos]].result[items[index][1]] = Balance(items[index][1])]_vars

\* analyze() has returned under FlowNodeIterator and a committed
\* NodeBalanceAnalyzer holds a node with a flow in each bucket
C18_Witness ==
    /\ Returned("analyze")
    /\ iterator = "FlowNodeIterator"
    /\ \E i \in 1..Len(former_chain) :
          /\ insts[former_chain[i]].cls = "NodeBalanceAnalyzer"
          /\ \E n \in DOMAIN insts[former_chain[i]].result :
                /\ insts[former_chain[i]].result[n].input # <<>>
                /\ insts[former_chain[i]].result[n].output # <<>>

\* the sum of the summed flows into the nodes of sinks, from position i on
RECURSIVE TotalLoad(_, _)
TotalLoad(sinks, i) ==
    IF i > Len(sinks) THEN 0
    ELSE LET into == {f \in SummedFlows : f[2] = sinks[i]}
         IN  SetSum([f \in into |-> SeqSum(ResultsFlow[f])], into) + TotalLoad(sinks, i + 1)

\* the value of analyzer class c for key k as get_analyzer gives it, 0 if absent
TermOf(c, k) ==
    IF k \in DOMAIN insts[get_analyzer(c)].result
    THEN insts[get_analyzer(c)].result[k] ELSE 0

\* C19: the analyze call of an LCOEAnalyzer on key k writes a result for k
\* exactly if InvestAnalyzer or VariableCostAnalyzer has one for k, and what
\* it writes is the quotient of the sum of the two, an absent one counted as
\* 0, and the total load of the load sinks (a quotient is the pair of
\* numerator and denominator).
C19_LevelizedCost ==
    [][(pc = "pass" /\ insts[chain[apos]].cls = "LCOEAnalyzer") =>
         LET k == items[index]
             has == \/ k \in DOMAIN insts[get_analyzer("InvestAnalyzer")].result
                    \/ k \in DOMAIN insts[get_analyzer("VariableCostAnalyzer")].result
         IN  IF has
             THEN /\ k \in DOMAIN insts'[chain[apos]].result
                  /\ insts'[chain[apos]].result[k] =
                        <<TermOf("InvestAnalyzer", k) + TermOf("VariableCostAnalyzer", k),
                          TotalLoad(insts[chain[apos]].load_sinks, 1)>>
             ELSE insts'[chain[apos]].result = insts[chain[apos]].result]_vars

\* this step is a call of clean()
CleanCall == nCalls' = nCalls + 1 /\ lastOp'.op = "clean"

\* C20: clean() leaves the waiting line and both chains empty and the
\* datasets and the iterator as they are; an analyze() called directly after
\* it calls no init_analyzer and no analyze of any analyzer object and puts
\* none into the current chain.
C20_CleanDiscardsAll ==
    /\ [][CleanCall =>
             /\ waiting_line' = <<>> /\ chain' = <<>> /\ former_chain' = <<>>
             /\ results' = results /\ param_results' = param_results
             /\ iterator' = iterator]_vars
    /\ [][(pc # "idle" /\ runInfo.after = "clean") =>
             /\ insts' = insts
             /\ chain' = <<>> /\ former_chain' = <<>>]_vars

\* analyze() has returned after a clean() that discarded an executed analyzer
C20_Witness ==
    /\ Returned("analyze")
    /\ runInfo.after = "clean"
    /\ \E a \in 1..Len(insts) : DOMAIN insts[a].calls # {}

\* analyze() was the last call and an exception ended it
AbortedRun == pc = "idle" /\ lastOp.op = "analyze" /\ raised # "none"

\* C22: when analyze() has been ended by an exception, the current chain
\* holds no analyzer that is not committed to the former chain, and every
\* analyzer registered since the last clean() is in the waiting line or
\* committed to the former chain.
C22_AbortLeavesConsistent ==
    AbortedRun =>
        /\ Range(chain) \subseteq Range(former_chain)
        /\ accepted \subseteq Range(waiting_line) \cup Range(former_chain)

\* C24: init_analyzer is called at most once on every analyzer object, and it
\* has been called on every object on which analyze has been called.
C24_InitOnce ==
    \A a \in 1..Len(insts) :
        /\ insts[a].inits <= 1
        /\ DOMAIN insts[a].calls # {} => insts[a].inits = 1

\* C25: an add_analyzer call that raises leaves the waiting line, the
\* current chain and the former chain as they were before the call.
C25_FailedRegistrationIsAtomic ==
    [][(AddCall /\ raised' # "none") =>
         /\ waiting_line' = waiting_line
         /\ chain' = chain
         /\ former_chain' = former_chain]_vars

\* C26: while a pass is under way, the iterator that drives it is the
\* required_iterator, or a subclass of it, of every analyzer of the current
\* chain that declares one.
C26_PassUsesRequiredIterator ==
    pc = "pass" =>
        \A i \in 1..Len(chain) :
            \/ required_iterator(insts[chain[i]].cls) = NoneV
            \/ IsSubclass(iterator, required_iterator(insts[chain[i]].cls))

\* the items the iterator has returned so far
Yielded == SubSeq(items, 1, index)

\* position of key k in the list ks
PosIn(ks, k) == CHOOSE i \in 1..Len(ks) : ks[i] = k

\* C23: a FlowNodeIterator over a dataset returns, until it is exhausted,
\* every key of the dataset exactly once, no node key (second component None)
\* before a flow key, and two keys of the same kind in the order they have in
\* the dataset; its items do not change while it is iterated, and it is
\* exhausted after as many items as the dataset has keys.
C23_FlowsThenNodes ==
    /\ [](  (pc \in {"iterating", "exhausted"} /\ iterator = "FlowNodeIterator") =>
            /\ Range(Yielded) \subseteq Range(param_results)
            /\ \A i \in 1..index : \A j \in 1..index :
                   i < j =>
                     /\ Yielded[i] # Yielded[j]
                     /\ ~(Yielded[i][2] = NoneV /\ Yielded[j][2] # NoneV)
                     /\ (Yielded[i][2] = NoneV <=> Yielded[j][2] = NoneV) =>
                           PosIn(param_results, Yielded[i]) < PosIn(param_results, Yielded[j])
            /\ pc = "exhausted" =>
                   /\ index = Len(param_results)
                   /\ Range(Yielded) = Range(param_results)  )
    /\ [][pc = "iterating" => items' = items /\ param_results' = param_results]_vars

\* a FlowNodeIterator is exhausted over a dataset of MaxKeys keys that has a
\* node key in front of two flow keys
C23_Witness ==
    /\ pc = "exhausted"
    /\ iterator = "FlowNodeIterator"
    /\ Len(param_results) = MaxKeys
    /\ param_results[1][2] = NoneV
    /\ param_results[2][2] # NoneV
    /\ param_results[MaxKeys][2] # NoneV

\* the calls since the last clean() were add_analyzer calls and one analyze()
\* after them, all have returned, and they repeat what the calls before that
\* clean() were: the same analyzers (class and load sinks) added in the same
\* order, run with the same iterator
RepeatedAnalysis ==
    /\ Returned("analyze")
    /\ lastOp.epoch.plain /\ lastOp.epoch.runs = 1
    /\ lastOp.before.plain
    /\ lastOp.epoch.adds # <<>>
    /\ lastOp.epoch.adds = lastOp.before.adds
    /\ lastOp.epoch.iterator = lastOp.before.iterator

\* C21: when an analysis that returned is repeated after clean() with the
\* same analyzers, the former chain holds for the same class names results
\* and totals equal to those it held when clean() was called.
C21_RepeatedAnalysisIsIdempotent ==
    RepeatedAnalysis => Committed = lastOp.before.committed

====
